---- MODULE Spec2Model ----
(***************************************************************************)
(* Model of cha16-06_REST_APIs_Tutorial.py: a script that runs, top to     *)
(* bottom, one GET, two POSTs, a GET followed by a PUT, one PATCH and one  *)
(* DELETE against a JSON REST service through the requests library, and    *)
(* branches by hand on status_code and reason after each exchange.         *)
(* The server and the network are the environment: every exchange either   *)
(* raises (transport failure) or returns a response chosen by the server.  *)
(***************************************************************************)
EXTENDS Integers, Sequences, FiniteSets, TLC

(* ------------------------------ bounds -------------------------------- *)

\* How many exchanges of one run of the script may get something else than
\* the answer the source's comments document (another status line, another
\* body, or no answer at all).
MaxFaults == 1

\* How many different ids the server may assign to a created todo.
MaxNewIds == 2

(* --------------------------- Python values ---------------------------- *)

PyInt(n) == [t |-> "int", n |-> n, s |-> "", b |-> FALSE]
PyStr(s) == [t |-> "str", n |-> 0, s |-> s, b |-> FALSE]
PyBool(b) == [t |-> "bool", n |-> 0, s |-> "", b |-> b]

\* The value of a name that no statement has assigned yet.
PyUnset == [t |-> "unset", n |-> 0, s |-> "", b |-> FALSE]

\* A dict is the sequence of its items in insertion order.
Item(k, v) == [key |-> k, val |-> v]

HasKey(d, k) == \E i \in 1..Len(d) : d[i].key = k

\* d[k]; the callers check HasKey first (a missing key is a KeyError).
GetItem(d, k) == d[CHOOSE i \in 1..Len(d) : d[i].key = k].val

\* d[k] = v: replaces the value in place, or appends a new item.
SetItem(d, k, v) ==
    IF HasKey(d, k)
    THEN [i \in 1..Len(d) |-> IF d[i].key = k THEN Item(k, v) ELSE d[i]]
    ELSE Append(d, Item(k, v))

RECURSIVE Merge(_, _)
\* {**d, **e}: the items of e laid over those of d.
Merge(d, e) ==
    IF e = <<>> THEN d
    ELSE Merge(SetItem(d, Head(e).key, Head(e).val), Tail(e))

Keys(d) == {d[i].key : i \in 1..Len(d)}

(* ------------------------------ JSON text ----------------------------- *)

\* A JSON literal as it stands in a text: a number, a quoted string, or one
\* of the words true and false.
JNum(n) == [j |-> "number", n |-> n, s |-> ""]
JStr(s) == [j |-> "string", n |-> 0, s |-> s]
JTrue == [j |-> "true", n |-> 0, s |-> ""]
JFalse == [j |-> "false", n |-> 0, s |-> ""]

Member(name, lit) == [name |-> name, lit |-> lit]

\* A text is an object text (its members in order), a text that is not
\* JSON (an HTML page), or the empty text; NoBody is the absence of a body.
ObjectText(members) == [form |-> "object", members |-> members]
HtmlText == [form |-> "html", members |-> <<>>]
EmptyText == [form |-> "empty", members |-> <<>>]
NoBody == [form |-> "none", members |-> <<>>]

\* json.dumps of one value: True and False become the words true and false.
dumps_value(v) ==
    CASE v.t = "int" -> JNum(v.n)
      [] v.t = "str" -> JStr(v.s)
      [] v.t = "bool" -> (IF v.b THEN JTrue ELSE JFalse)

\* json.loads of one literal.
loads_value(l) ==
    CASE l.j = "number" -> PyInt(l.n)
      [] l.j = "string" -> PyStr(l.s)
      [] l.j = "true" -> PyBool(TRUE)
      [] l.j = "false" -> PyBool(FALSE)

\* json.dumps(d) of a dict.
json_dumps(d) ==
    ObjectText([i \in 1..Len(d) |-> Member(d[i].key, dumps_value(d[i].val))])

\* json.loads(text) raises JSONDecodeError unless the text is JSON.
IsJson(text) == text.form = "object"

\* json.loads(text) of a JSON text.
json_loads(text) ==
    [i \in 1..Len(text.members) |->
        Item(text.members[i].name, loads_value(text.members[i].lit))]

(* ------------------------- requests and answers ---------------------- *)

JsonMediaType == "application/json"

\* What one call hands to the transport.
Request(method, url, body, content_type) ==
    [method |-> method, url |-> url, body |-> body, content_type |-> content_type]

\* requests.get(url), requests.delete(url): no body, no Content-Type.
requests_get(url) == Request("GET", url, NoBody, "")
requests_delete(url) == Request("DELETE", url, NoBody, "")

\* requests.post/put/patch(url, json=d): requests serializes d itself and
\* sets the Content-Type header.
requests_post_json(url, d) == Request("POST", url, json_dumps(d), JsonMediaType)
requests_put_json(url, d) == Request("PUT", url, json_dumps(d), JsonMediaType)
requests_patch_json(url, d) == Request("PATCH", url, json_dumps(d), JsonMediaType)

\* requests_post_data without the headers argument: a text passed as data=
\* goes out with no Content-Type.
requests_post_data_plain(url, text, h) == Request("POST", url, text, "")

\* requests.post(url, data=text, headers=h): the text as given, the headers
\* as given.
requests_post_data(url, text, h) ==
    Request("POST", url, text,
            IF HasKey(h, "Content-Type") THEN GetItem(h, "Content-Type").s ELSE "")

\* The fields of a Response object the script reads: status_code, reason, text.
Response(status_code, reason, text) ==
    [status_code |-> status_code, reason |-> reason, text |-> text]

\* A response variable that no statement has assigned yet.
NoResponse == Response(0, "", NoBody)

\* TodosUrl with the id of the GET section left on it.
TodosUrlWithId == "https://jsonplaceholder.typicode.com/todos/1"

TodosUrl == "https://jsonplaceholder.typicode.com/todos"
Todo1Url == "https://jsonplaceholder.typicode.com/todos/1"
Todo10Url == "https://jsonplaceholder.typicode.com/todos/10"

\* The todos the service holds, as the source's output comments show them.
Todo1 ==
    << Item("userId", PyInt(1)), Item("id", PyInt(1)),
       Item("title", PyStr("delectus aut autem")), Item("completed", PyBool(FALSE)) >>
Todo10 ==
    << Item("userId", PyInt(1)), Item("id", PyInt(10)),
       Item("title", PyStr("illo est ratione doloremque quia maiores aut")),
       Item("completed", PyBool(TRUE)) >>

\* The first id the service gives to a created todo.
FirstNewId == 201

NewIds == FirstNewId .. (FirstNewId + MaxNewIds - 1)

\* The bodies the service documents for a request: the stored todo for a
\* GET, the payload with an id for a POST or a PUT, the stored todo with the
\* payload laid over it for a PATCH, the empty object for a DELETE.
DocumentedBodies(req) ==
    CASE req.method = "GET" ->
           {json_dumps(IF req.url = Todo1Url THEN Todo1 ELSE Todo10)}
      [] req.method = "POST" ->
           {json_dumps(SetItem(json_loads(req.body), "id", PyInt(id))) : id \in NewIds}
      [] req.method = "PUT" ->
           {json_dumps(SetItem(json_loads(req.body), "id", PyInt(10)))}
      [] req.method = "PATCH" ->
           {json_dumps(Merge(Todo10, json_loads(req.body)))}
      [] req.method = "DELETE" ->
           {ObjectText(<<>>)}

\* The status line the service documents for a method.
DocumentedStatus(method) == IF method = "POST" THEN 201 ELSE 200

\* One status of each class of the source's table, the success statuses it
\* lists, one informational status and one beyond the classes.
StatusCodes == {100, 200, 201, 204, 301, 404, 500, 600}

\* The reason phrase that goes with a status.
ReasonOf(status_code) ==
    CASE status_code = 100 -> "Continue"
      [] status_code = 200 -> "OK"
      [] status_code = 201 -> "Created"
      [] status_code = 204 -> "No Content"
      [] status_code = 301 -> "Moved Permanently"
      [] status_code = 404 -> "Not Found"
      [] status_code = 500 -> "Internal Server Error"
      [] OTHER -> ""

\* A status line: the status with its phrase, or with no phrase at all (the
\* phrase is optional on the wire).
StatusLines ==
    {<<st, ReasonOf(st)>> : st \in StatusCodes} \cup {<<st, "">> : st \in {200, 201}}

\* The answers the source's comments document for a request.
Answers(req) ==
    {Response(DocumentedStatus(req.method), ReasonOf(DocumentedStatus(req.method)), b) :
        b \in DocumentedBodies(req)}

\* Every answer a server may give: any status line, with a documented body,
\* an empty object, a page that is not JSON, or nothing.
AnyAnswers(req) ==
    {Response(sl[1], sl[2], b) :
        sl \in StatusLines,
        b \in DocumentedBodies(req) \cup {ObjectText(<<>>), HtmlText, EmptyText}}

\* The exceptions requests raises when the exchange does not complete.
TransportErrors == {"ConnectionError", "SSLError"}

\* The server takes the request and never answers: no call passes timeout=,
\* and requests waits without limit when none is given.
NoAnswer == "no answer"

\* The ways one call can end: a response (raised = ""), an exception, or
\* never (raised = NoAnswer); fault = 1 for every way but a documented
\* answer.
Results(req) ==
    {[raised |-> "", response |-> r, fault |-> 0] : r \in Answers(req)}
    \cup {[raised |-> "", response |-> r, fault |-> 1] : r \in AnyAnswers(req) \ Answers(req)}
    \cup {[raised |-> e, response |-> NoResponse, fault |-> 1] :
              e \in TransportErrors \cup {NoAnswer}}

\* Transmit with a retry: a call that fails, or is answered with a server
\* error, sends its request once more.
TransmitWithRetry(log, req, res) ==
    IF res.raised # "" \/ res.response.status_code >= 500
    THEN Append(Append(log, req), req)
    ELSE Append(log, req)

\* One call is one exchange, whatever its result: the request goes out once.
Transmit(log, req, res) == Append(log, req)

(* ------------------------------ the script --------------------------- *)

VARIABLES
    pc,             \* the statement the script is at
    error,          \* the uncaught exception that ended the script, if any
    faults,         \* exchanges so far that did not get a documented answer
    sent,           \* the requests handed to the transport, in order
    invoked,        \* the calls the script has made, in order
    stdout,         \* the report and comparison lines printed so far
    api_url, todo, headers,
    req_userId, req_title, req_completed,
    resp_py, resp_userId, resp_title, resp_completed,
    user_id, title, completed,
    response_get, response_post, response_post2, response,
    response_put, response_patch, response_del

control == <<pc, error>>
requestvars == <<api_url, todo, headers, req_userId, req_title, req_completed>>
decodedvars == <<resp_py, resp_userId, resp_title, resp_completed>>
taskvars == <<user_id, title, completed>>
responses ==
    <<response_get, response_post, response_post2, response,
      response_put, response_patch, response_del>>
transport == <<faults, sent, invoked>>
vars == <<control, transport, stdout, requestvars, decodedvars, taskvars, responses>>

NoError == [type |-> "", line |-> 0]

\* Who runs a statement: the script itself, top to bottom, or one of
\* several callers that each run one section of it, over the same module
\* globals. pc is then a label per caller.
At(who) == IF who = "script" THEN pc ELSE pc[who]
Goto(who, label) == pc' = IF who = "script" THEN label ELSE [pc EXCEPT ![who] = label]

\* The script falls through to its next section; a caller of one section
\* returns at the end of it.
After(who, label) == IF who = "script" THEN label ELSE "returned"

\* An exception nobody catches ends its runner at the line that raised it.
RaiseBy(who, type, line) ==
    /\ Goto(who, "crashed")
    /\ error' = [type |-> type, line |-> line]

Raise(type, line) == RaiseBy("script", type, line)

\* A line of output: the branch that printed it, what it says, the method
\* its text names, the status and reason it shows, and the results of the
\* comparisons it prints.
Line(section, verdict, label, status_code, reason, flags) ==
    [section |-> section, verdict |-> verdict, label |-> label,
     status_code |-> status_code, reason |-> reason, flags |-> flags]

\* a == b in Python: True and False compare as 1 and 0.
PyEq(a, b) ==
    LET num(v) == IF v.t = "bool" THEN (IF v.b THEN 1 ELSE 0) ELSE v.n
    IN  IF a.t \in {"int", "bool"} /\ b.t \in {"int", "bool"}
        THEN num(a) = num(b)
        ELSE a = b

TodoFields == <<"userId", "title", "completed">>

\* The first of the keys that d lacks (0 when it has them all): reading it
\* raises KeyError.
FirstMissing(d, keys) ==
    IF \A i \in 1..Len(keys) : HasKey(d, keys[i])
    THEN 0
    ELSE CHOOSE i \in 1..Len(keys) :
            /\ ~HasKey(d, keys[i])
            /\ \A j \in 1..(i - 1) : HasKey(d, keys[j])

\* The value of a variable after the statements  x = d[keys[1]]; ...  have
\* run up to the first KeyError: d[k] when k was read, old otherwise.
ReadField(d, keys, k, old) ==
    LET m == FirstMissing(d, keys)
    IN  IF \E i \in 1..Len(keys) : keys[i] = k /\ (m = 0 \/ i < m)
        THEN GetItem(d, k)
        ELSE old

\* The condition of each if statement.
GetOk == response_get.status_code = 200 /\ response_get.reason = "OK"
PostOk == response_post.status_code = 201 /\ response_post.reason = "Created"
PutOk == response_put.status_code = 200 /\ response_put.reason = "OK"
PatchOk == response_patch.status_code = 200 /\ response_patch.reason = "OK"
DeleteOk == response_del.status_code = 200 /\ response_del.reason = "OK"

\* The if/else after a GET, POST, PUT or PATCH. ok: the if's condition;
\* resp: the response it tests and decodes; shown: the response whose status
\* and reason the success message prints; loads: the line of json.loads;
\* keys: the fields read from the decoded dict, one per line after the
\* message; compare: whether the branch prints req_x == resp_x.
BranchBy(who, section, ok, resp, shown, loads, reads, keys, compare, next) ==
    IF ok
    THEN IF ~IsJson(resp.text)
         THEN /\ RaiseBy(who, "JSONDecodeError", loads)
              /\ UNCHANGED <<stdout, decodedvars>>
         ELSE LET d == json_loads(resp.text)
                  m == FirstMissing(d, keys)
                  u == ReadField(d, keys, "userId", resp_userId)
                  t == ReadField(d, keys, "title", resp_title)
                  c == ReadField(d, keys, "completed", resp_completed)
                  said == Append(stdout,
                              Line(section, "Successful", section,
                                   shown.status_code, shown.reason, <<>>))
                  flags == [i \in 1..Len(keys) |->
                              CASE keys[i] = "userId" -> PyEq(req_userId, u)
                                [] keys[i] = "title" -> PyEq(req_title, t)
                                [] keys[i] = "completed" -> PyEq(req_completed, c)]
              IN  /\ resp_py' = d
                  /\ resp_userId' = u
                  /\ resp_title' = t
                  /\ resp_completed' = c
                  /\ IF m = 0
                     THEN /\ Goto(who, next)
                          /\ UNCHANGED error
                          /\ stdout' = IF compare
                                       THEN Append(said, Line(section, "compare", section,
                                                              0, "", flags))
                                       ELSE said
                     ELSE /\ RaiseBy(who, "KeyError", reads + m - 1)
                          /\ stdout' = said
    ELSE /\ stdout' = Append(stdout,
                          Line(section, "Unsuccessful", section,
                               resp.status_code, resp.reason, <<>>))
         /\ Goto(who, next)
         /\ UNCHANGED <<error, decodedvars>>

Branch(section, ok, resp, shown, loads, reads, keys, compare, next) ==
    BranchBy("script", section, ok, resp, shown, loads, reads, keys, compare, next)

\* One call of the requests library: the request goes to the transport, and
\* the call returns a response, raises, or never returns.
CallBy(who, name, req, res, line, next) ==
    /\ faults + res.fault <= MaxFaults
    /\ faults' = faults + res.fault
    /\ sent' = Transmit(sent, req, res)
    /\ invoked' = Append(invoked, name)
    /\ IF res.raised = ""
       THEN Goto(who, next) /\ UNCHANGED error
       ELSE IF res.raised = NoAnswer
            THEN Goto(who, "blocked") /\ UNCHANGED error
            ELSE RaiseBy(who, res.raised, line)

Call(name, req, res, line, next) == CallBy("script", name, req, res, line, next)

\* The module globals before the first statement.
NothingAssigned ==
    /\ error = NoError
    /\ faults = 0
    /\ sent = <<>>
    /\ invoked = <<>>
    /\ stdout = <<>>
    /\ api_url = ""
    /\ todo = <<>>
    /\ headers = <<>>
    /\ req_userId = PyUnset /\ req_title = PyUnset /\ req_completed = PyUnset
    /\ resp_py = <<>>
    /\ resp_userId = PyUnset /\ resp_title = PyUnset /\ resp_completed = PyUnset
    /\ user_id = PyUnset /\ title = PyUnset /\ completed = PyUnset
    /\ response_get = NoResponse /\ response_post = NoResponse
    /\ response_post2 = NoResponse /\ response = NoResponse
    /\ response_put = NoResponse /\ response_patch = NoResponse
    /\ response_del = NoResponse

Init ==
    /\ pc = "get"
    /\ NothingAssigned

\* GET /todos/1.
Get ==
    /\ pc = "get"
    /\ api_url' = Todo1Url
    /\ \E res \in Results(requests_get(Todo1Url)) :
          /\ Call("get", requests_get(api_url'), res, 256, "get_branch")
          /\ response_get' = IF res.raised = "" THEN res.response ELSE response_get
    /\ UNCHANGED <<stdout, todo, headers, req_userId, req_title, req_completed,
                   decodedvars, taskvars, response_post, response_post2, response,
                   response_put, response_patch, response_del>>

\* The if/else after the GET. (The success branch also prints the three
\* fields and the same fields taken from response_get.json(), which decodes
\* the same text again.)
GetBranch ==
    /\ pc = "get_branch"
    /\ Branch("GET", GetOk, response_get, response_get, 276, 283, TodoFields, FALSE,
              "get_decode")
    /\ UNCHANGED <<transport, requestvars, taskvars, responses>>

\* The decode after the if/else, which runs whatever the branch taken.
GetDecode ==
    /\ pc = "get_decode"
    /\ IF ~IsJson(response_get.text)
       THEN /\ Raise("JSONDecodeError", 324)
            /\ UNCHANGED <<resp_py, taskvars>>
       ELSE LET d == json_loads(response_get.text)
                m == FirstMissing(d, TodoFields)
            IN  /\ resp_py' = d
                /\ user_id' = ReadField(d, TodoFields, "userId", user_id)
                /\ title' = ReadField(d, TodoFields, "title", title)
                /\ completed' = ReadField(d, TodoFields, "completed", completed)
                /\ IF m = 0
                   THEN pc' = "post_build" /\ UNCHANGED error
                   ELSE Raise("KeyError", 330 + m - 1)
    /\ UNCHANGED <<transport, stdout, requestvars, resp_userId, resp_title,
                   resp_completed, responses>>

\* The dicts the script builds for its requests.
PostTodo ==
    << Item("userId", PyInt(1)), Item("title", PyStr("By honey")),
       Item("completed", PyBool(FALSE)) >>
Post2Todo ==
    << Item("userId", PyInt(1)), Item("title", PyStr("By beer")),
       Item("completed", PyBool(FALSE)) >>
PutTodo ==
    << Item("userId", PyInt(1)), Item("title", PyStr("Dance at Hector party")),
       Item("completed", PyBool(TRUE)) >>
Post2Headers == << Item("Content-Type", PyStr("application/json")) >>

\* PatchTodo as an update in place, todo["title"] = "Happy Happy": the dict
\* of the PUT section with its title changed.
PatchTodoInPlace == SetItem(todo, "title", PyStr("Happy Happy"))

\* todo = {"title": "Happy Happy"}: a new dict bound to the name; the dict
\* the PUT section built is dropped.
PatchTodo == << Item("title", PyStr("Happy Happy")) >>

\* PutJson as a read-modify-write: the fields of the fetched copy with the
\* new ones laid over them.
PutJsonMerged ==
    IF IsJson(response.text) THEN Merge(json_loads(response.text), todo) ELSE todo

\* The json= argument of each call: the dict bound to todo at that point.
PostJson == todo
PutJson == todo
PatchJson == todo

\* POST /todos, first version: the dict and the copies of its fields.
PostBuildBy(who) ==
    /\ At(who) = "post_build"
    /\ api_url' = TodosUrl
    /\ todo' = PostTodo
    /\ req_userId' = GetItem(todo', "userId")
    /\ req_title' = GetItem(todo', "title")
    /\ req_completed' = GetItem(todo', "completed")
    /\ Goto(who, "post_send")
    /\ UNCHANGED <<error, transport, stdout, headers, decodedvars, taskvars, responses>>

PostBuild == PostBuildBy("script")

PostSendBy(who) ==
    /\ At(who) = "post_send"
    /\ \E res \in Results(requests_post_json(api_url, PostJson)) :
          /\ CallBy(who, "create", requests_post_json(api_url, PostJson), res, 363, "post_branch")
          /\ response_post' = IF res.raised = "" THEN res.response ELSE response_post
    /\ UNCHANGED <<stdout, requestvars, decodedvars, taskvars, response_get,
                   response_post2, response, response_put, response_patch, response_del>>

PostSend == PostSendBy("script")

PostBranchBy(who) ==
    /\ At(who) = "post_branch"
    /\ BranchBy(who, "POST", PostOk, response_post, response_post, 368, 375, TodoFields, TRUE,
                After(who, "post2_build"))
    /\ UNCHANGED <<transport, requestvars, taskvars, responses>>

PostBranch == PostBranchBy("script")

\* POST /todos, second version: the text serialized by hand, the header set
\* by hand.
Post2Build ==
    /\ pc = "post2_build"
    /\ api_url' = TodosUrl
    /\ todo' = Post2Todo
    /\ headers' = Post2Headers
    /\ pc' = "post2_send"
    /\ UNCHANGED <<error, transport, stdout, req_userId, req_title, req_completed,
                   decodedvars, taskvars, responses>>

\* The call and the print of the status that follows it.
Post2Send ==
    /\ pc = "post2_send"
    /\ \E res \in Results(requests_post_data(api_url, json_dumps(todo), headers)) :
          /\ Call("create", requests_post_data(api_url, json_dumps(todo), headers), res,
                  407, "get_before")
          /\ response_post2' = IF res.raised = "" THEN res.response ELSE response_post2
          /\ stdout' = IF res.raised = ""
                       THEN Append(stdout, Line("POST2", "status", "",
                                                res.response.status_code, "", <<>>))
                       ELSE stdout
    /\ UNCHANGED <<requestvars, decodedvars, taskvars, response_get, response_post,
                   response, response_put, response_patch, response_del>>

\* The GET of /todos/10 that opens the PUT section.
GetBefore ==
    /\ pc = "get_before"
    /\ api_url' = Todo10Url
    /\ \E res \in Results(requests_get(Todo10Url)) :
          /\ Call("get", requests_get(api_url'), res, 450, "put_build")
          /\ response' = IF res.raised = "" THEN res.response ELSE response
    /\ UNCHANGED <<stdout, todo, headers, req_userId, req_title, req_completed,
                   decodedvars, taskvars, response_get, response_post, response_post2,
                   response_put, response_patch, response_del>>

PutBuild ==
    /\ pc = "put_build"
    /\ todo' = PutTodo
    /\ req_userId' = GetItem(todo', "userId")
    /\ req_title' = GetItem(todo', "title")
    /\ req_completed' = GetItem(todo', "completed")
    /\ pc' = "put_send"
    /\ UNCHANGED <<error, transport, stdout, api_url, headers, decodedvars, taskvars,
                   responses>>

PutSend ==
    /\ pc = "put_send"
    /\ \E res \in Results(requests_put_json(api_url, PutJson)) :
          /\ Call("replace", requests_put_json(api_url, PutJson), res, 461, "put_branch")
          /\ response_put' = IF res.raised = "" THEN res.response ELSE response_put
    /\ UNCHANGED <<stdout, requestvars, decodedvars, taskvars, response_get,
                   response_post, response_post2, response, response_patch, response_del>>

\* The success message prints response, the answer to the GET that opened
\* the section, where the condition tests response_put.
PutBranch ==
    /\ pc = "put_branch"
    /\ Branch("PUT", PutOk, response_put, response, 475, 482, TodoFields, TRUE,
              "patch_build")
    /\ UNCHANGED <<transport, requestvars, taskvars, responses>>

PatchBuildBy(who) ==
    /\ At(who) = "patch_build"
    /\ api_url' = Todo10Url
    /\ todo' = PatchTodo
    /\ req_title' = GetItem(todo', "title")
    /\ Goto(who, "patch_send")
    /\ UNCHANGED <<error, transport, stdout, headers, req_userId, req_completed,
                   decodedvars, taskvars, responses>>

PatchBuild == PatchBuildBy("script")

PatchSendBy(who) ==
    /\ At(who) = "patch_send"
    /\ \E res \in Results(requests_patch_json(api_url, PatchJson)) :
          /\ CallBy(who, "update", requests_patch_json(api_url, PatchJson), res, 515,
                  "patch_branch")
          /\ response_patch' = IF res.raised = "" THEN res.response ELSE response_patch
    /\ UNCHANGED <<stdout, requestvars, decodedvars, taskvars, response_get,
                   response_post, response_post2, response, response_put, response_del>>

PatchSend == PatchSendBy("script")

PatchBranchBy(who) ==
    /\ At(who) = "patch_branch"
    /\ BranchBy(who, "PATCH", PatchOk, response_patch, response_patch, 518, 525, <<"title">>,
              TRUE, After(who, "delete"))
    /\ UNCHANGED <<transport, requestvars, taskvars, responses>>

PatchBranch == PatchBranchBy("script")

\* DELETE /todos/10.
Delete ==
    /\ pc = "delete"
    /\ api_url' = Todo10Url
    /\ \E res \in Results(requests_delete(Todo10Url)) :
          /\ Call("delete", requests_delete(api_url'), res, 550, "delete_branch")
          /\ response_del' = IF res.raised = "" THEN res.response ELSE response_del
    /\ UNCHANGED <<stdout, todo, headers, req_userId, req_title, req_completed,
                   decodedvars, taskvars, response_get, response_post, response_post2,
                   response, response_put, response_patch>>

\* The if/else after the DELETE: nothing is decoded. The success message
\* prints response (the GET of the PUT section); the other message names
\* PATCH and prints response_del.
DeleteBranch ==
    /\ pc = "delete_branch"
    /\ stdout' = IF DeleteOk
                 THEN Append(stdout, Line("DELETE", "Successful", "DELETE",
                                          response.status_code, response.reason, <<>>))
                 ELSE Append(stdout, Line("DELETE", "Unsuccessful", "PATCH",
                                          response_del.status_code, response_del.reason,
                                          <<>>))
    /\ pc' = "done"
    /\ UNCHANGED <<error, transport, requestvars, decodedvars, taskvars, responses>>

Next ==
    \/ Get \/ GetBranch \/ GetDecode
    \/ PostBuild \/ PostSend \/ PostBranch
    \/ Post2Build \/ Post2Send
    \/ GetBefore \/ PutBuild \/ PutSend \/ PutBranch
    \/ PatchBuild \/ PatchSend \/ PatchBranch
    \/ Delete \/ DeleteBranch

Spec == Init /\ [][Next]_vars

(* ------------------------------ properties ---------------------------- *)

Sections == {"GET", "POST", "PUT", "PATCH", "DELETE"}

\* The sections whose success branch decodes the body.
PayloadSections == {"GET", "POST", "PUT", "PATCH"}

\* The response a section's if statement tests.
ResponseOf(section) ==
    CASE section = "GET" -> response_get
      [] section = "POST" -> response_post
      [] section = "PUT" -> response_put
      [] section = "PATCH" -> response_patch
      [] section = "DELETE" -> response_del

\* The statement that follows a section's if/else.
AfterBranch(section) ==
    CASE section = "GET" -> "get_decode"
      [] section = "POST" -> "post2_build"
      [] section = "PUT" -> "patch_build"
      [] section = "PATCH" -> "delete"
      [] section = "DELETE" -> "done"

\* The lines of a section's if/else.
BranchLines(section) ==
    CASE section = "GET" -> 275..305
      [] section = "POST" -> 367..386
      [] section = "PUT" -> 474..493
      [] section = "PATCH" -> 517..532
      [] section = "DELETE" -> 552..562

\* The section's if/else has just run: to its end, or to an exception in it.
Classified(section) ==
    \/ pc = AfterBranch(section)
    \/ pc = "crashed" /\ error.line \in BranchLines(section)

\* The section reported this verdict.
Reported(section, verdict) ==
    \E i \in 1..Len(stdout) :
        stdout[i].section = section /\ stdout[i].verdict = verdict

\* The section reported this verdict and showed this status with it.
ReportedWith(section, verdict, status_code) ==
    \E i \in 1..Len(stdout) :
        /\ stdout[i].section = section
        /\ stdout[i].verdict = verdict
        /\ stdout[i].status_code = status_code

\* The class of a status in the table of status ranges.
KindOf(status_code) ==
    CASE status_code \in 200..299 -> "Success"
      [] status_code \in 300..399 -> "Redirection"
      [] status_code \in 400..499 -> "ClientError"
      [] status_code \in 500..599 -> "ServerError"
      [] OTHER -> "Unexpected"

\* The response carries the reason phrase that goes with its status.
StandardPhrase(r) == r.reason = ReasonOf(r.status_code)

\* C1: every status is reported by its class: a status of 200-299 (with its
\* own reason phrase and a body the section can use) as a success, every
\* other status as a failure, in each of the five sections.
C1_StatusToKind ==
    \A section \in Sections :
        (Classified(section) /\ StandardPhrase(ResponseOf(section))) =>
            LET r == ResponseOf(section)
            IN  /\ (KindOf(r.status_code) = "Success"
                        /\ (section = "DELETE" \/ IsJson(r.text)))
                    => Reported(section, "Successful")
                /\ KindOf(r.status_code) # "Success"
                    => Reported(section, "Unsuccessful")

\* C2: in the GET, POST, PUT and PATCH sections a response with a status of
\* 200-299 (and its own reason phrase) and a JSON body is reported as a
\* success, not as a failure, and its body is decoded into resp_py.
C2_SuccessRangeDecoded ==
    \A section \in PayloadSections :
        LET r == ResponseOf(section)
        IN  (/\ Classified(section) /\ StandardPhrase(r)
             /\ r.status_code \in 200..299 /\ IsJson(r.text))
                => /\ Reported(section, "Successful")
                   /\ ~Reported(section, "Unsuccessful")
                   /\ resp_py = json_loads(r.text)

\* C3: the DELETE section reports a success for a 200 with any body and for
\* a 204 with no body (each with its own reason phrase), and a failure for
\* every status outside 200-299.
C3_DeleteSuccess ==
    (Classified("DELETE") /\ StandardPhrase(response_del)) =>
        /\ response_del.status_code = 200 => Reported("DELETE", "Successful")
        /\ (response_del.status_code = 204 /\ response_del.text = EmptyText)
              => Reported("DELETE", "Successful")
        /\ KindOf(response_del.status_code) # "Success"
              => Reported("DELETE", "Unsuccessful")

\* C4: a transport failure never ends the script as an uncaught exception.
C4_TransportReturned ==
    ~(pc = "crashed" /\ error.type \in TransportErrors)

\* C5: a status of 200-299 with a body that is not JSON is reported as a
\* failure that shows the status, and raises nothing.
C5_DecodeErrorReturned ==
    \A section \in PayloadSections :
        LET r == ResponseOf(section)
        IN  (Classified(section) /\ r.status_code \in 200..299 /\ ~IsJson(r.text))
                => /\ pc # "crashed"
                   /\ ReportedWith(section, "Unsuccessful", r.status_code)

\* A section's response is a failure: its status is outside 200-299, or the
\* section needs a body and the body is not JSON.
IsFailure(section) ==
    \/ KindOf(ResponseOf(section).status_code) # "Success"
    \/ section \in PayloadSections /\ ~IsJson(ResponseOf(section).text)

\* C6: on every failure the section reports the failure with the status of
\* its response, the response (status and body) still at hand.
C6_FailureCarriesStatusAndBody ==
    \A section \in Sections :
        (Classified(section) /\ IsFailure(section))
            => ReportedWith(section, "Unsuccessful", ResponseOf(section).status_code)

\* The HTTP method of each call.
MethodOf(name) ==
    CASE name = "get" -> "GET"
      [] name = "create" -> "POST"
      [] name = "replace" -> "PUT"
      [] name = "update" -> "PATCH"
      [] name = "delete" -> "DELETE"

\* C7: every call performs exactly one exchange, of its own method, and no
\* request is ever sent a second time, whatever the outcomes before it.
C7_OneExchangeNoRetry ==
    /\ Len(sent) = Len(invoked)
    /\ \A i \in 1..Len(sent) : sent[i].method = MethodOf(invoked[i])
    /\ \A i, j \in 1..Len(sent) : i # j => sent[i] # sent[j]

\* C7 witness: the script ran to its end after a section reported a failure.
C7_Witness ==
    /\ pc = "done"
    /\ Len(sent) = 7
    /\ \E section \in Sections : Reported(section, "Unsuccessful")

\* C8: the body of every PUT is the dict the PUT section built, and nothing
\* else: it has no id, the field that only the fetched copy has.
C8_ReplaceBodyIsPayload ==
    \A i \in 1..Len(sent) :
        sent[i].method = "PUT" =>
            /\ IsJson(sent[i].body)
            /\ json_loads(sent[i].body) = PutTodo
            /\ "id" \notin Keys(json_loads(sent[i].body))

\* C8 witness: a PUT went out after the GET had fetched a copy with an id.
C8_Witness ==
    /\ \E i \in 1..Len(sent) : sent[i].method = "PUT"
    /\ IsJson(response.text)
    /\ HasKey(json_loads(response.text), "id")

\* C9: the body of every PATCH holds the title and no other field: neither
\* userId nor completed of the dict the PUT section had built.
C9_UpdateBodyIsPartial ==
    \A i \in 1..Len(sent) :
        sent[i].method = "PATCH" =>
            /\ IsJson(sent[i].body)
            /\ json_loads(sent[i].body) = << Item("title", PyStr("Happy Happy")) >>

\* C9 witness: a PATCH went out after a PUT whose body had the other fields.
C9_Witness ==
    /\ \E i \in 1..Len(sent) : sent[i].method = "PATCH"
    /\ \E i \in 1..Len(sent) :
          /\ sent[i].method = "PUT"
          /\ {"userId", "completed"} \subseteq Keys(json_loads(sent[i].body))

\* C10: a 201 whose body is the payload of the first POST plus an id is
\* reported as a success, the decoded id is the server's and every other
\* decoded field equals the field of the payload.
C10_CreateRoundTrip ==
    \A id \in NewIds :
        (/\ Classified("POST")
         /\ response_post.status_code = 201
         /\ response_post.text = json_dumps(SetItem(PostTodo, "id", PyInt(id))))
            => /\ Reported("POST", "Successful")
               /\ HasKey(resp_py, "id") /\ GetItem(resp_py, "id") = PyInt(id)
               /\ \A k \in Keys(PostTodo) :
                     HasKey(resp_py, k) /\ GetItem(resp_py, k) = GetItem(PostTodo, k)

\* The path of a URL of the service, segment by segment.
PathOf(url) ==
    CASE url = "https://jsonplaceholder.typicode.com/todos" -> <<"todos">>
      [] url = "https://jsonplaceholder.typicode.com/todos/1" -> <<"todos", "1">>
      [] url = "https://jsonplaceholder.typicode.com/todos/10" -> <<"todos", "10">>
      [] OTHER -> <<>>

\* C11: every exchange has the method of its call and the endpoint shape
\* that goes with it: /collection for a create, /collection/{id} for a get,
\* a replace, an update and a delete; a GET and a DELETE carry no body.
C11_MethodAndEndpoint ==
    /\ Len(sent) = Len(invoked)
    /\ \A i \in 1..Len(sent) :
          /\ sent[i].method = MethodOf(invoked[i])
          /\ Len(PathOf(sent[i].url)) = (IF invoked[i] = "create" THEN 1 ELSE 2)
          /\ sent[i].method \in {"GET", "DELETE"}
                => sent[i].body = NoBody /\ sent[i].content_type = ""

\* C11 witness: the run has made a call of each of the five kinds.
C11_Witness ==
    {invoked[i] : i \in 1..Len(invoked)} = {"get", "create", "replace", "update", "delete"}

\* C12: every POST, PUT and PATCH goes out with Content-Type
\* application/json and a JSON text of the dict as its body, whether the
\* dict was passed as json= or serialized by hand.
C12_JsonEncoding ==
    \A i \in 1..Len(sent) :
        sent[i].method \in {"POST", "PUT", "PATCH"} =>
            /\ sent[i].content_type = "application/json"
            /\ IsJson(sent[i].body)
            /\ json_loads(sent[i].body) \in
                  {PostTodo, Post2Todo, PutTodo, << Item("title", PyStr("Happy Happy")) >>}

\* C12 witness: both POSTs, the one with json= and the one serialized by
\* hand, have gone out, and the PUT and the PATCH after them.
C12_Witness ==
    /\ \E i \in 1..Len(sent) :
          sent[i].method = "POST" /\ json_loads(sent[i].body) = PostTodo
    /\ \E i \in 1..Len(sent) :
          sent[i].method = "POST" /\ json_loads(sent[i].body) = Post2Todo
    /\ \E i \in 1..Len(sent) : sent[i].method = "PUT"
    /\ \E i \in 1..Len(sent) : sent[i].method = "PATCH"

\* The request a section sends has gone out.
Exchanged(section) ==
    \E i \in 1..Len(sent) :
        sent[i].method = section /\ ResponseOf(section) # NoResponse

\* C14: a section builds, exchanges, classifies and only then reports:
\* every line that shows a status comes from the if/else that classified
\* the response, after that section's exchange.
C14_ClassifiedBeforeReported ==
    \A i \in 1..Len(stdout) :
        stdout[i].verdict \in {"Successful", "Unsuccessful", "status"} =>
            /\ stdout[i].section \in Sections
            /\ Exchanged(stdout[i].section)

\* C17: a success message shows the status and the reason of the response
\* its own section received.
C17_OwnStatusReported ==
    \A i \in 1..Len(stdout) :
        stdout[i].verdict = "Successful" =>
            /\ stdout[i].status_code = ResponseOf(stdout[i].section).status_code
            /\ stdout[i].reason = ResponseOf(stdout[i].section).reason

\* The status each section's if statement asks for.
AcceptedStatus(section) == IF section = "POST" THEN 201 ELSE 200

\* C18: the verdict of a section depends on the status of its response and
\* not on the reason phrase: a response with the status the section accepts
\* is a success whatever its phrase (the body being one the section can
\* decode), and no other response is.
C18_ReasonPhraseIgnored ==
    \A section \in Sections :
        LET r == ResponseOf(section)
        IN  (Classified(section) /\ (section = "DELETE" \/ IsJson(r.text)))
                => (Reported(section, "Successful")
                        <=> r.status_code = AcceptedStatus(section))

\* C19: after a GET reported as unsuccessful its body is neither decoded
\* nor read, and the script goes on to the POST: no exception of the decode
\* ends it, and user_id stays unassigned.
C19_NoDecodeAfterFailure ==
    Reported("GET", "Unsuccessful") =>
        /\ ~(pc = "crashed" /\ error.type \in {"JSONDecodeError", "KeyError"})
        /\ user_id = PyUnset

\* The script has ended: past its last statement, or on an exception.
Returned == pc \in {"done", "crashed"}

\* C16: no call keeps the script waiting for good: whenever the script has
\* not ended, a next statement can run, so a server that never answers ends
\* the call it is in.
C16_EventuallyReturns == Returned \/ ENABLED Next

\* The callers of the interleaved run and the section each of them runs.
Callers == {"create", "update"}
EntryOf(who) == IF who = "create" THEN "post_build" ELSE "patch_build"

\* Two callers, one in the POST section (lines 356-386) and one in the
\* PATCH section (lines 510-532), each about to run its first statement;
\* the names both sections assign are the module's globals.
InitInterleaved ==
    /\ pc = [who \in Callers |-> EntryOf(who)]
    /\ NothingAssigned

\* One statement of one caller; the callers' statements interleave freely.
NextInterleaved ==
    \/ PostBuildBy("create")
    \/ PostSendBy("create")
    \/ PostBranchBy("create")
    \/ PatchBuildBy("update")
    \/ PatchSendBy("update")
    \/ PatchBranchBy("update")

SpecInterleaved == InitInterleaved /\ [][NextInterleaved]_vars

\* The request each section sends when it runs alone.
RequestAlone(name) ==
    IF name = "create"
    THEN requests_post_json(TodosUrl, PostTodo)
    ELSE requests_patch_json(Todo10Url, PatchTodo)

\* C15: interleaved with another caller, each caller sends the request
\* (method, URL, body) it sends when it runs alone.
C15_RequestAsAlone ==
    \A i \in 1..Len(sent) : sent[i] = RequestAlone(invoked[i])

====
